---- MODULE Spec2Model ----
\* Organ Adjustment Engine (OAE): the two engine variants of the repository,
\* src/oae.py and src/core.py, as one state machine.  The variable `engine`
\* says which of the two OAE classes was constructed; each variant has its own
\* resonance / decay_tick / checkpoint actions over the same Soken state.
\*
\* Python floats are modelled as fixed-point numbers: an integer n stands for
\* n / Scale.  A product is rounded down to the next multiple of 1/Scale.
EXTENDS Integers, Sequences, FiniteSets, TLC

VARIABLES engine, digital_organs, meta, params, now, files, result

vars == <<engine, digital_organs, meta, params, now, files, result>>

\* ------------------------------------------------------------------ numbers

\* Fixed-point unit: Scale stands for 1.0.
Scale == 1000

\* Number of time-reading / state-touching calls explored from construction.
MaxTime == 3

\* Number of steps of the grid on which [0, 1] is sampled.
GridSteps == 4

\* a * b on fixed-point numbers
Mul(a, b) == (a * b) \div Scale

Min(a, b) == IF a <= b THEN a ELSE b

Max(a, b) == IF a >= b THEN a ELSE b

\* n / 10^k as a fixed-point literal helpers
Tenths(n) == (n * Scale) \div 10

Hundredths(n) == (n * Scale) \div 100

\* f"+{x:.{places}f}": the text is determined by the sign prefix, the number
\* of places and x rounded (half to even) to that many places.
RoundHalfEven(x, unit) ==
    LET q == x \div unit
        r == x % unit
    IN  IF 2 * r < unit THEN q
        ELSE IF 2 * r > unit THEN q + 1
        ELSE IF q % 2 = 0 THEN q ELSE q + 1

FormatPlus(x, places) ==
    [prefix |-> "+", places |-> places,
     digits |-> IF places = 2 THEN RoundHalfEven(x, Scale \div 100)
                ELSE x * 10]

\* ------------------------------------------------------------------ strings

\* A Python str as the sequence of its characters.
s_motor == <<"m", "o", "t", "o", "r">>

s_cognitive == <<"c", "o", "g", "n", "i", "t", "i", "v", "e">>

\* sub in s
Contains(sub, s) ==
    \E i \in 1..(Len(s) - Len(sub) + 1) : SubSeq(s, i, i + Len(sub) - 1) = sub

\* the value of context.get("organ_id") when the key is missing
None == "None"

\* ------------------------------------------------------------------ dicts

\* d.get(k, dflt)
Get(d, k, dflt) == IF k \in DOMAIN d THEN d[k] ELSE dflt

\* d[k] = v
Put(d, k, v) == [x \in DOMAIN d \cup {k} |-> IF x = k THEN v ELSE d[x]]

EmptyDict == [x \in {} |-> 0]

\* ------------------------------------------------------------------ identity

\* Soken.did, split at ':' (oae.py names checkpoint files by the last part)
DidParts == <<"did", "world", "0x1f">>

Ddna == "ddna-sha256"

\* DigitalOrgan.schema values used in the two drivers
schema_motor_v1 == s_motor \o <<"_", "v", "1">>

schema_cognitive_v1 == s_cognitive \o <<"_", "v", "1">>

schema_locomotion_v1 == <<"l", "o", "c", "o", "m", "o", "t", "i", "o", "n">>

\* keys of Soken.digital_organs, in dict (insertion) order
OaeOrder == <<"arm", "mind", "legs">>

OaeKeys == {OaeOrder[i] : i \in 1..Len(OaeOrder)}

OaeSchema(k) ==
    IF k = "arm" THEN schema_motor_v1
    ELSE IF k = "mind" THEN schema_cognitive_v1
    ELSE schema_locomotion_v1

\* DigitalOrgan.properties default_factory: strength 10.0, fatigue 0.0,
\* integrity 100.0
DefaultProperties ==
    [k \in {"strength", "fatigue", "integrity"} |->
        IF k = "strength" THEN 10 * Scale
        ELSE IF k = "fatigue" THEN 0 ELSE 100 * Scale]

Props(s, f, i) ==
    [k \in {"strength", "fatigue", "integrity"} |->
        IF k = "strength" THEN s ELSE IF k = "fatigue" THEN f ELSE i]

\* The property maps a caller may construct the organs with: the defaults,
\* values near the 100.0 cap, rested organs above the 10.0 baseline, and
\* maps that lack a key (properties is an open Dict[str, float]).
OaeProfiles ==
    { [k \in OaeKeys |-> DefaultProperties],
      [k \in OaeKeys |->
          IF k = "arm" THEN Props(Tenths(995), 95 * Scale, 100 * Scale)
          ELSE IF k = "mind" THEN Props(50 * Scale, Tenths(5), 100 * Scale)
          ELSE Props(10 * Scale + 5, 2 * Scale, 80 * Scale)],
      [k \in OaeKeys |->
          IF k = "arm" THEN [x \in {"integrity"} |-> 100 * Scale]
          ELSE IF k = "mind" THEN [x \in {"strength"} |-> 100 * Scale]
          ELSE DefaultProperties] }

Organ(k, schema, volatile, props) ==
    [organ_id |-> k, schema |-> schema, volatile |-> volatile,
     properties |-> props]

\* OAEParams of oae.py: each coefficient in [0, 1]
OaeParams(md, eg, lr, rr) ==
    [memory_decay |-> md, entropy_guard |-> eg, learn_rate |-> lr,
     recovery_rate |-> rr]

OaeParamChoices ==
    { OaeParams(Tenths(1), Hundredths(85), Hundredths(5), Tenths(2)),
      OaeParams(Tenths(1), Tenths(3), Tenths(1), Tenths(3)),
      OaeParams(Scale, 0, Scale, Scale),
      OaeParams(0, Scale, 0, 0) }

\* ------------------------------------------------------------------ calls

\* What a stimulus may carry under "intensity" / "alignment": no key, a
\* number, or a str that float() rejects.
Absent == [kind |-> "absent", val |-> 0]

Text == [kind |-> "text", val |-> 0]

Num(n) == [kind |-> "num", val |-> n]

NumberInputs == {Num(-Scale), Num(0), Num(Scale), Num(2 * Scale)}

FieldInputs == {Absent, Text} \cup NumberInputs

\* the "alignment" values tried (core.py only)
AlignmentInputs == {Absent, Text, Num(-Scale)}

\* the "intensity" values tried on core.py
CoreIntensityInputs == {Absent, Text, Num(2 * Scale)}

\* float(context.get(key, 0.5)) succeeds
CanFloat(f) == f.kind \in {"absent", "num"}

\* float(context.get(key, 0.5))
Float(f) == IF f.kind = "absent" THEN Tenths(5) ELSE f.val

\* the exception float() raises on a str that is no number
FloatError(f) == "ValueError"

OrganIdInputs == OaeKeys \cup {"ghost", "", None}

OaeContexts == [organ_id : OrganIdInputs, intensity : FieldInputs]

\* `if target_id` : None and "" are falsy
Truthy(id) == id # None /\ id # ""

NoCall == [op |-> "none", status |-> "returned", value |-> [nothing |-> TRUE]]

Returned(op, value) == [op |-> op, status |-> "returned", value |-> value]

Raised(op, exc) == [op |-> op, status |-> "raised", value |-> [exception |-> exc]]

\* ------------------------------------------------------------------ oae.py

\* report = {"status": "ignored", "impact": 0.0}
IgnoredReport == [status |-> "ignored", impact |-> 0]

\* effective_impact with the damping coefficient of core.py (0.6)
effective_impact_damped06(intensity) ==
    Mul(intensity, Scale - Mul(params.entropy_guard, Tenths(6)))

\* the damping read with the wrong sign: 1.0 + entropy_guard * 0.3
ImpactAt_amplified(entropy_guard, intensity) ==
    Mul(intensity, Scale + Mul(entropy_guard, Tenths(3)))

\* intensity * (1.0 - (entropy_guard * 0.3)) as a function of the guard
ImpactAt(entropy_guard, intensity) ==
    Mul(intensity, Scale - Mul(entropy_guard, Tenths(3)))

\* effective_impact = intensity * (1.0 - (self.params.entropy_guard * 0.3))
effective_impact(intensity) == ImpactAt(params.entropy_guard, intensity)

\* gain = effective_impact * learn_rate
gain(intensity) == Mul(effective_impact(intensity), params.learn_rate)

\* fatigue_spike = intensity * 10.0
fatigue_spike(intensity) == Mul(intensity, 10 * Scale)

\* the strength update without its min(100.0, ...)
NewStrength_unclamped(props, intensity) ==
    Get(props, "strength", 10 * Scale) + gain(intensity)

\* min(100.0, current_str + gain)
NewStrength(props, intensity) ==
    Min(100 * Scale, Get(props, "strength", 10 * Scale) + gain(intensity))

\* min(100.0, current_fatigue + fatigue_spike)
NewFatigue(props, intensity) ==
    Min(100 * Scale, Get(props, "fatigue", 0) + fatigue_spike(intensity))

\* a motor branch that also wears the organ's integrity down
MotorProperties_wearing(props, intensity) ==
    Put(Put(Put(props, "strength", NewStrength(props, intensity)),
            "fatigue", NewFatigue(props, intensity)),
        "integrity", Get(props, "integrity", 100 * Scale) - fatigue_spike(intensity))

\* the motor branch's writes to organ.properties
MotorProperties(props, intensity) ==
    Put(Put(props, "strength", NewStrength(props, intensity)),
        "fatigue", NewFatigue(props, intensity))

MotorReport(target_id, props, intensity) ==
    [organ |-> target_id,
     strength_gain |-> FormatPlus(gain(intensity), 4),
     new_strength |-> NewStrength(props, intensity),
     fatigue_spike |-> FormatPlus(fatigue_spike(intensity), 2)]

\* `if target_id and target_id in self.soken.digital_organs`
Known(target_id) == Truthy(target_id) /\ target_id \in DOMAIN digital_organs

\* `"motor" in organ.schema`
IsMotor(organ) == Contains(s_motor, organ.schema)

\* the dict resonance returns
OaeReport(target_id, intensity) ==
    IF Known(target_id) /\ IsMotor(digital_organs[target_id])
    THEN MotorReport(target_id, digital_organs[target_id].properties, intensity)
    ELSE IgnoredReport

\* self.soken.meta["last_active_organ"] = target_id; ["last_active_ts"] = time.time()
TouchMeta(target_id, ts) ==
    Put(Put(meta, "last_active_organ", target_id), "last_active_ts", ts)

\* OAE.resonance(context) of oae.py
OaeResonance(ctx) ==
    /\ engine = "oae"
    /\ now < MaxTime
    /\ now' = now + 1
    /\ UNCHANGED <<engine, params, files>>
    /\ IF ~CanFloat(ctx.intensity)
       THEN /\ result' = Raised("resonance", FloatError(ctx.intensity))
            /\ UNCHANGED <<digital_organs, meta>>
       ELSE LET target_id == ctx.organ_id
                intensity == Float(ctx.intensity)
            IN  /\ result' = Returned("resonance", OaeReport(target_id, intensity))
                /\ IF Known(target_id)
                   THEN /\ digital_organs' =
                              IF IsMotor(digital_organs[target_id])
                              THEN [digital_organs EXCEPT ![target_id].properties =
                                        MotorProperties(@, intensity)]
                              ELSE digital_organs
                        /\ meta' = TouchMeta(target_id, now')
                   ELSE UNCHANGED <<digital_organs, meta>>

\* loss with the wrong sign
loss_negated(props) == 0 - Mul(props["fatigue"], params.recovery_rate)

\* loss = props["fatigue"] * recovery_rate
loss(props) == Mul(props["fatigue"], params.recovery_rate)

\* a recovery step that leaves the fatigue where it is
Recovered_never(props) == props

\* the recovery step of one organ
Recovered(props) ==
    IF Get(props, "fatigue", 0) > 0
    THEN Put(props, "fatigue", Max(0, props["fatigue"] - loss(props)))
    ELSE props

\* decay_amt = props["strength"] * (memory_decay * 0.01)
decay_amt(props) == (props["strength"] * params.memory_decay) \div (100 * Scale)

\* the atrophy test without its baseline: any rested organ atrophies
Atrophies_unguarded(props) ==
    "strength" \in DOMAIN props /\ Get(props, "fatigue", 0) < Scale

\* the atrophy test, on the properties the recovery step left
Atrophies(props) ==
    Get(props, "strength", 0) > 10 * Scale /\ Get(props, "fatigue", 0) < Scale

Atrophied(props) ==
    IF Atrophies(props)
    THEN Put(props, "strength", props["strength"] - decay_amt(props))
    ELSE props

\* an iteration that atrophies before it recovers
DecayOrgan_atrophyFirst(organ) ==
    [organ EXCEPT !.properties = Recovered(Atrophied(@))]

\* an iteration that also clears the organ's volatile flag
DecayOrgan_stabilizing(organ) ==
    [organ EXCEPT !.properties = Atrophied(Recovered(@)), !.volatile = FALSE]

\* one iteration of the loop over digital_organs.items()
DecayOrgan(organ) ==
    [organ EXCEPT !.properties = Atrophied(Recovered(@))]

\* the `recovered` and `atrophied` lists of the summary
RecoveredList ==
    LET hit == SelectSeq(OaeOrder,
                   LAMBDA k : Get(digital_organs[k].properties, "fatigue", 0) > 0)
    IN  [i \in 1..Len(hit) |->
            [oid |-> hit[i],
             fatigue |-> FormatPlus(loss(digital_organs[hit[i]].properties), 2)]]

AtrophiedList ==
    LET hit == SelectSeq(OaeOrder,
                   LAMBDA k : Atrophies(Recovered(digital_organs[k].properties)))
    IN  [i \in 1..Len(hit) |->
            [oid |-> hit[i],
             str |-> FormatPlus(
                 decay_amt(Recovered(digital_organs[hit[i]].properties)), 4)]]

\* what decay_tick of oae.py does to the engine; it reads no clock
DecayTickEffect ==
    /\ engine = "oae"
    /\ digital_organs' = [k \in DOMAIN digital_organs |-> DecayOrgan(digital_organs[k])]
    /\ result' = Returned("decay_tick",
                     [recovered |-> RecoveredList, atrophied |-> AtrophiedList])
    /\ UNCHANGED <<engine, meta, params, files>>

\* OAE.decay_tick() of oae.py, as one of the calls counted by MaxTime
OaeDecayTick ==
    /\ now < MaxTime
    /\ now' = now + 1
    /\ DecayTickEffect

\* OAE.decay_tick() of oae.py invoked again and again while the engine rests
RestTick ==
    /\ DecayTickEffect
    /\ UNCHANGED now

\* ------------------------------------------------------------------ storage

\* What the file system does to a checkpoint call: os.makedirs, open(path,
\* "wb") or f.write may fail with OSError.
StorageOutcomes == {"ok", "makedirs_fails", "open_fails", "write_fails"}

Labels == {"post_workout", "rest"}

\* json.dumps(doc, ...).encode("utf-8"): the text spells out every key and
\* value of doc in dict order, so it is kept as the document with the layout
\* options that were used.
JsonBytes(doc, layout) == [layout |-> layout, doc |-> doc]

\* sha256_hex(data)[:n]: an ideal hash, equal only on equal bytes
HashPrefix(data, n) == [sha256 |-> data, hexchars |-> n]

\* with open(path, "wb") as f: f.write(data) under the given outcome: nothing
\* happens before open succeeds; open truncates or creates the file; a failed
\* write leaves an incomplete file behind.
WriteFile(path, data, outcome) ==
    IF outcome \in {"makedirs_fails", "open_fails"} THEN files
    ELSE {f \in files : f.path # path}
         \cup {[path |-> path, complete |-> (outcome = "ok"), data |-> data]}

\* checkpoint swallowing the OSError and returning the path anyway
CheckpointResult_swallowed(path, outcome) ==
    Returned("checkpoint", [path |-> path])

\* what checkpoint hands back under the given outcome
CheckpointResult(path, outcome) ==
    IF outcome = "ok" THEN Returned("checkpoint", [path |-> path])
    ELSE Raised("checkpoint", "OSError")

\* a snapshot that also counts the checkpoints written so far
OaeSnapshot_counting(label, ts) ==
    [did |-> DidParts,
     timestamp |-> ts,
     label |-> label,
     seq |-> Cardinality(files),
     organs |-> [k \in DOMAIN digital_organs |->
                    [id |-> digital_organs[k].organ_id,
                     props |-> digital_organs[k].properties]]]

\* the snapshot dict of oae.py's checkpoint
OaeSnapshot(label, ts) ==
    [did |-> DidParts,
     timestamp |-> ts,
     label |-> label,
     organs |-> [k \in DOMAIN digital_organs |->
                    [id |-> digital_organs[k].organ_id,
                     props |-> digital_organs[k].properties]]]

\* data_bytes = json.dumps(snapshot, indent=2).encode('utf-8')
OaeBytes(label, ts) == JsonBytes(OaeSnapshot(label, ts), "indent=2")

\* os.path.join(self._ckpt_dir, f"{did.split(':')[-1]}_{label}_{file_hash}.json")
OaePath(label, ts) ==
    [dir |-> "./oae_checkpoints",
     name |-> <<DidParts[Len(DidParts)], label, HashPrefix(OaeBytes(label, ts), 12)>>]

\* OAE.checkpoint(label) of oae.py
OaeCheckpoint(label, outcome) ==
    /\ engine = "oae"
    /\ now < MaxTime
    /\ now' = now + 1
    /\ files' = WriteFile(OaePath(label, now'), OaeBytes(label, now'), outcome)
    /\ result' = CheckpointResult(OaePath(label, now'), outcome)
    /\ UNCHANGED <<engine, digital_organs, meta, params>>

\* ------------------------------------------------------------------ core.py

schema_episodic_v1 == <<"e", "p", "i", "s", "o", "d", "i", "c", "_", "v", "1">>

schema_affect_v1 == <<"a", "f", "f", "e", "c", "t", "_", "v", "1">>

CoreOrder == <<"memory", "emotion">>

CoreKeys == {CoreOrder[i] : i \in 1..Len(CoreOrder)}

\* DigitalOrgan of core.py: no properties; state_uri / state_hash default None
CoreOrgan(k) ==
    [organ_id |-> k, state_uri |-> None, state_hash |-> None,
     schema |-> IF k = "memory" THEN schema_episodic_v1 ELSE schema_affect_v1,
     volatile |-> (k = "emotion")]

\* OAEParams of core.py
CoreParams(md, eg, lr) ==
    [memory_decay |-> md, entropy_guard |-> eg, learn_rate |-> lr]

CoreParamChoices ==
    { CoreParams(Hundredths(55), Hundredths(62), Hundredths(8)),
      CoreParams(Scale, 0, Scale),
      CoreParams(0, Scale, 0) }

\* Soken.meta as the caller passes it: empty, or with an affect level
CoreMetaChoices ==
    { EmptyDict, [x \in {"affect_level"} |-> Tenths(7)] }

\* Soken policy fields (dataclass defaults)
Policy ==
    [non_fungible |-> TRUE, unique_identity |-> TRUE, transferable |-> TRUE,
     merge_policy |-> "oae-consensus"]

CoreContexts ==
    [organ_id : CoreKeys \cup {"ghost", None},
     intensity : CoreIntensityInputs, alignment : AlignmentInputs]

\* inten * align * (1.0 - entropy_guard * 0.6) as a function of the guard
EffectiveAt(entropy_guard, inten, align) ==
    Mul(Mul(inten, align), Scale - Mul(entropy_guard, Tenths(6)))

\* effective = inten * align * (1.0 - self.params.entropy_guard * 0.6)
effective(inten, align) == EffectiveAt(params.entropy_guard, inten, align)

\* prev_lr = float(meta.get("effective_learn_rate", self.params.learn_rate))
prev_lr == Get(meta, "effective_learn_rate", params.learn_rate)

\* new_lr = max(0.0, min(1.0, prev_lr + effective * 0.05))
new_lr(inten, align) ==
    Max(0, Min(Scale, prev_lr + Mul(effective(inten, align), Hundredths(5))))

\* the meta writes of core.py's resonance
CoreResonanceMeta(target_organ, inten, align, ts) ==
    LET m == Put(meta, "effective_learn_rate", new_lr(inten, align))
    IN  IF Known(target_organ)
        THEN Put(Put(m, "hot_organ", target_organ), "hot_organ_at", ts)
        ELSE m

\* a resonance that adapts the learn rate in the parameters themselves
CoreResonance_adapting(ctx) ==
    /\ engine = "core"
    /\ now < MaxTime
    /\ now' = now + 1
    /\ CanFloat(ctx.intensity) /\ CanFloat(ctx.alignment)
    /\ params' = [params EXCEPT !.learn_rate =
                     new_lr(Float(ctx.intensity), Float(ctx.alignment))]
    /\ meta' = CoreResonanceMeta(ctx.organ_id, Float(ctx.intensity),
                                 Float(ctx.alignment), now')
    /\ result' = Returned("resonance", [target_organ |-> ctx.organ_id])
    /\ UNCHANGED <<engine, digital_organs, files>>

\* OAE.resonance(context) of core.py
CoreResonance(ctx) ==
    /\ engine = "core"
    /\ now < MaxTime
    /\ now' = now + 1
    /\ UNCHANGED <<engine, digital_organs, params, files>>
    /\ IF ~CanFloat(ctx.intensity)
       THEN /\ result' = Raised("resonance", FloatError(ctx.intensity))
            /\ UNCHANGED meta
       ELSE IF ~CanFloat(ctx.alignment)
       THEN /\ result' = Raised("resonance", FloatError(ctx.alignment))
            /\ UNCHANGED meta
       ELSE LET inten == Float(ctx.intensity)
                align == Float(ctx.alignment)
            IN  /\ meta' = CoreResonanceMeta(ctx.organ_id, inten, align, now')
                /\ result' = Returned("resonance",
                       [effective_impact |-> effective(inten, align),
                        learn_rate_prev |-> prev_lr,
                        learn_rate_new |-> new_lr(inten, align),
                        guard |-> params.entropy_guard,
                        target_organ |-> ctx.organ_id])

\* the affect decay without its 0.5
new_emo_full(emo) == Mul(emo, Scale - params.memory_decay)

\* new_emo = emo * (1.0 - 0.5 * decay)
new_emo(emo) == Mul(emo, Scale - Mul(Tenths(5), params.memory_decay))

\* cooled: the volatile organs, in dict order
volatile_cooled == SelectSeq(CoreOrder, LAMBDA k : digital_organs[k].volatile)

\* OAE.decay_tick(now) of core.py
CoreDecayTick ==
    /\ engine = "core"
    /\ now < MaxTime
    /\ now' = now + 1
    /\ meta' = Put(meta, "affect_level", new_emo(Get(meta, "affect_level", 0)))
    /\ result' = Returned("decay_tick",
                     [affect_prev |-> Get(meta, "affect_level", 0),
                      affect_new |-> new_emo(Get(meta, "affect_level", 0)),
                      volatile_cooled |-> volatile_cooled])
    /\ UNCHANGED <<engine, digital_organs, params, files>>

\* the payload dict of core.py's checkpoint
CorePayload(label, ts) ==
    [did |-> DidParts,
     ddna_sha256 |-> Ddna,
     policy |-> Policy,
     digital_organs |-> [k \in DOMAIN digital_organs |->
         [organ_id |-> digital_organs[k].organ_id,
          state_uri |-> digital_organs[k].state_uri,
          state_hash |-> digital_organs[k].state_hash,
          schema |-> digital_organs[k].schema,
          volatile |-> digital_organs[k].volatile]],
     meta |-> meta,
     oae_params |-> params,
     ts |-> ts,
     label |-> label]

\* raw = json.dumps(payload, separators=(",", ":"), ensure_ascii=False).encode("utf-8")
CoreBytes(label, ts) == JsonBytes(CorePayload(label, ts), "compact")

\* self._checkpoint_dir = self.soken.meta.get("checkpoint_dir", "./oae_ckpt")
\* (no operation writes that key, so the value read at construction is the
\* value meta still holds)
checkpoint_dir == Get(meta, "checkpoint_dir", "./oae_ckpt")

\* os.path.join(self._checkpoint_dir, f"{label}_{digest[:16]}.json")
CorePath(label, ts) ==
    [dir |-> checkpoint_dir,
     name |-> <<label, HashPrefix(CoreBytes(label, ts), 16)>>]

\* OAE.checkpoint(label) of core.py
CoreCheckpoint(label, outcome) ==
    /\ engine = "core"
    /\ now < MaxTime
    /\ now' = now + 1
    /\ files' = WriteFile(CorePath(label, now'), CoreBytes(label, now'), outcome)
    /\ result' = CheckpointResult(CorePath(label, now'), outcome)
    /\ UNCHANGED <<engine, digital_organs, meta, params>>

\* the bytes read back from a stored file: all of them, or a proper prefix
\* when the write failed
FileBytes(f) == IF f.complete THEN f.data ELSE [truncated |-> f.data]

\* OAE.verify_integrity(snapshot_bytes) of core.py: a staticmethod, it reads
\* neither the engine nor the clock
CoreVerifyIntegrity(snapshot_bytes) ==
    /\ engine = "core"
    /\ result' = Returned("verify_integrity", [sha256 |-> HashPrefix(snapshot_bytes, 64)])
    /\ UNCHANGED <<engine, digital_organs, meta, params, now, files>>

\* ------------------------------------------------------------------ machine

\* The state after OAE(soken, params) was constructed, for either variant.
InitOae ==
    /\ engine = "oae"
    /\ \E profile \in OaeProfiles :
          digital_organs = [k \in OaeKeys |->
              Organ(k, OaeSchema(k), k = "arm", profile[k])]
    /\ meta = EmptyDict
    /\ params \in OaeParamChoices

InitCore ==
    /\ engine = "core"
    /\ digital_organs = [k \in CoreKeys |-> CoreOrgan(k)]
    /\ meta \in CoreMetaChoices
    /\ params \in CoreParamChoices

Init ==
    /\ InitOae \/ InitCore
    /\ now = 0
    /\ files = {}
    /\ result = NoCall

\* construction of an engine of oae.py
InitOaeEngine == Init /\ engine = "oae"

\* construction of an engine of core.py
InitCoreEngine == Init /\ engine = "core"

\* the calls a caller may make on an engine of oae.py
OaeNext ==
    \/ \E ctx \in OaeContexts : OaeResonance(ctx)
    \/ OaeDecayTick
    \/ \E label \in Labels, outcome \in StorageOutcomes : OaeCheckpoint(label, outcome)

\* the calls a caller may make on an engine of core.py
CoreNext ==
    \/ \E ctx \in CoreContexts : CoreResonance(ctx)
    \/ CoreDecayTick
    \/ \E label \in Labels, outcome \in StorageOutcomes : CoreCheckpoint(label, outcome)

Next == OaeNext \/ CoreNext

Spec == Init /\ [][Next]_vars

\* every operation of either variant, verify_integrity on stored bytes included
AllNext ==
    \/ Next
    \/ \E f \in files : CoreVerifyIntegrity(FileBytes(f))

AllSpec == Init /\ [][AllNext]_vars

\* an engine of oae.py alone
OaeSpec == InitOaeEngine /\ [][OaeNext]_vars

\* an engine of oae.py driven with every intensity in [0, 1] (or none given)
UnitNext ==
    \/ \E ctx \in OaeContexts :
          /\ CanFloat(ctx.intensity)
          /\ 0 <= Float(ctx.intensity) /\ Float(ctx.intensity) <= Scale
          /\ OaeResonance(ctx)
    \/ OaeDecayTick

UnitSpec == InitOaeEngine /\ [][UnitNext]_vars

\* an engine of oae.py that takes at most one stimulus when fresh and is then
\* left to decay_tick alone, which is invoked for as long as it changes anything
RestNext ==
    \/ \E ctx \in OaeContexts : result = NoCall /\ OaeResonance(ctx)
    \/ RestTick

RestSpec == InitOaeEngine /\ [][RestNext]_vars /\ WF_vars(RestTick)

\* an engine of core.py alone
CoreSpec == InitCoreEngine /\ [][CoreNext]_vars

\* ------------------------------------------------------------------ properties

\* the parameters of the end-to-end scenario
ScenarioParams == OaeParams(Tenths(1), Tenths(3), Tenths(1), Tenths(3))

\* strength / fatigue of organ k, where the key is present
Has(k, p) == p \in DOMAIN digital_organs[k].properties

Prop(k, p) == digital_organs[k].properties[p]

\* C1: in the oae.py engine, with every coefficient in [0, 1] and organs
\* constructed with strength and fatigue at most 100.0, no sequence of
\* resonance and decay_tick calls takes a motor organ's strength or fatigue
\* above 100.0.
C1_MotorNeverAboveCap ==
    engine = "oae" =>
        \A k \in DOMAIN digital_organs :
            IsMotor(digital_organs[k]) =>
                \A p \in {"strength", "fatigue"} :
                    Has(k, p) => Prop(k, p) <= 100 * Scale

\* a resonance of intensity 1.0 with a positive gain has just left the motor
\* organ with strength and fatigue both clamped at 100.0
C1_Witness ==
    /\ engine = "oae"
    /\ result.op = "resonance" /\ result.status = "returned"
    /\ "organ" \in DOMAIN result.value
    /\ result.value.organ = "arm"
    /\ result.value.strength_gain.digits > 0
    /\ result.value.fatigue_spike.digits = 10 * 100
    /\ Prop("arm", "strength") = 100 * Scale
    /\ Prop("arm", "fatigue") = 100 * Scale

\* C2: a decay_tick of the oae.py engine leaves the fatigue and the strength
\* of every organ whose fatigue and strength are non-negative at values that
\* are still non-negative and no greater than before the tick.
C2_DecayNonNegativeNonIncreasing ==
    [][OaeDecayTick =>
        \A k \in DOMAIN digital_organs :
            LET before == digital_organs[k].properties
                after == digital_organs'[k].properties
            IN  (Get(before, "fatigue", 0) >= 0 /\ Get(before, "strength", 0) >= 0) =>
                    /\ DOMAIN after = DOMAIN before
                    /\ \A p \in DOMAIN before \cap {"fatigue", "strength"} :
                          after[p] >= 0 /\ after[p] <= before[p]]_vars

\* a decay_tick has just recovered one organ and atrophied one
C2_Witness ==
    /\ engine = "oae"
    /\ result.op = "decay_tick"
    /\ Len(result.value.recovered) > 0
    /\ Len(result.value.atrophied) > 0
    /\ \A k \in DOMAIN digital_organs :
          \A p \in DOMAIN digital_organs[k].properties : Prop(k, p) >= 0

\* C3: a resonance call of the oae.py engine whose organ_id is missing, empty
\* or no key of digital_organs returns exactly {status: "ignored", impact:
\* 0.0} and changes neither an organ nor meta.
C3_UnknownOrganIgnored ==
    [][\A ctx \in OaeContexts :
          (OaeResonance(ctx) /\ ~Known(ctx.organ_id)) =>
              /\ result' = Returned("resonance", IgnoredReport)
              /\ UNCHANGED <<digital_organs, meta>>]_vars

\* C4: a resonance call of the oae.py engine on a known organ whose schema
\* does not contain "motor" changes no organ, and records the target id as
\* meta.last_active_organ and a timestamp as meta.last_active_ts.
C4_UnmatchedTouchesMetaOnly ==
    [][\A ctx \in OaeContexts :
          (/\ OaeResonance(ctx)
           /\ Known(ctx.organ_id)
           /\ ~IsMotor(digital_organs[ctx.organ_id])) =>
              /\ UNCHANGED digital_organs
              /\ Get(meta', "last_active_organ", None) = ctx.organ_id
              /\ "last_active_ts" \in DOMAIN meta']_vars

\* the effective impact a report carries, if it carries one
ReportsImpact(report, impact) ==
    \/ "impact" \in DOMAIN report /\ report.impact = impact
    \/ "effective_impact" \in DOMAIN report /\ report.effective_impact = impact

\* the organ id a report carries, if it carries one
ReportsOrgan(report, id) ==
    \/ "organ" \in DOMAIN report /\ report.organ = id
    \/ "target_organ" \in DOMAIN report /\ report.target_organ = id

\* C5: every resonance call of the oae.py engine on a known organ (here: with
\* an intensity float() accepts) returns a report that contains the target
\* organ id and the computed effective impact.
C5_ReportHasOrganAndImpact ==
    [][\A ctx \in OaeContexts :
          (OaeResonance(ctx) /\ Known(ctx.organ_id) /\ CanFloat(ctx.intensity)) =>
              /\ result'.status = "returned"
              /\ ReportsOrgan(result'.value, ctx.organ_id)
              /\ ReportsImpact(result'.value,
                               effective_impact(Float(ctx.intensity)))]_vars

\* C6: resonance never raises, and after any resonance call the strength and
\* fatigue of every organ are within [0, 100].
C6_NeverRaisesStaysInRange ==
    /\ result.op = "resonance" => result.status = "returned"
    /\ engine = "oae" =>
          \A k \in DOMAIN digital_organs :
              \A p \in {"strength", "fatigue"} :
                  Has(k, p) => (0 <= Prop(k, p) /\ Prop(k, p) <= 100 * Scale)

\* C7: with entropy_guard 0.3, learn_rate 0.1 and recovery_rate 0.3, a
\* resonance of intensity 1.0 on a motor organ at strength 10.0 and fatigue
\* 0.0 computes the impact 0.91 and leaves strength 10.091 and fatigue 10.0;
\* a decay_tick from there leaves fatigue 7.0 and strength 10.091 and does
\* not report the organ as atrophied.
C7_EndToEnd ==
    [][/\ \A ctx \in OaeContexts :
            (/\ OaeResonance(ctx)
             /\ params = ScenarioParams
             /\ ctx = [organ_id |-> "arm", intensity |-> Num(Scale)]
             /\ Get(digital_organs["arm"].properties, "strength", 10 * Scale) = 10 * Scale
             /\ Get(digital_organs["arm"].properties, "fatigue", 0) = 0) =>
                /\ effective_impact(Float(ctx.intensity)) = Hundredths(91)
                /\ digital_organs'["arm"].properties["strength"] = 10 * Scale + 91
                /\ digital_organs'["arm"].properties["fatigue"] = 10 * Scale
                /\ result'.value.new_strength = 10 * Scale + 91
       /\ (/\ OaeDecayTick
           /\ params = ScenarioParams
           /\ Has("arm", "strength") /\ Has("arm", "fatigue")
           /\ Prop("arm", "strength") = 10 * Scale + 91
           /\ Prop("arm", "fatigue") = 10 * Scale) =>
                /\ digital_organs'["arm"].properties["fatigue"] = 7 * Scale
                /\ digital_organs'["arm"].properties["strength"] = 10 * Scale + 91
                /\ \A i \in 1..Len(result'.value.atrophied) :
                      result'.value.atrophied[i].oid # "arm"]_vars

\* the scenario has run: the resonance, then the decay_tick
C7_Witness ==
    /\ engine = "oae" /\ params = ScenarioParams
    /\ now = 2
    /\ result.op = "decay_tick"
    /\ Len(result.value.recovered) = 1
    /\ result.value.recovered[1] = [oid |-> "arm", fatigue |-> FormatPlus(3 * Scale, 2)]
    /\ Has("arm", "strength") /\ Prop("arm", "strength") = 10 * Scale + 91
    /\ Has("arm", "fatigue") /\ Prop("arm", "fatigue") = 7 * Scale

\* a serialized document without its timestamp field
StripTimestamp(doc) == [k \in DOMAIN doc \ {"timestamp", "ts"} |-> doc[k]]

\* the file a path names
FileAt(fs, path) == CHOOSE f \in fs : f.path = path

\* either variant's checkpoint
IsCheckpoint(label, outcome) ==
    OaeCheckpoint(label, outcome) \/ CoreCheckpoint(label, outcome)

\* C8: checkpoint changes neither the organs nor meta nor the parameters,
\* and a checkpoint that directly follows a checkpoint with the same label
\* writes the same bytes as that one except for the timestamp field.
C8_CheckpointPureAndRepeatable ==
    [][\A label \in Labels, outcome \in StorageOutcomes :
          IsCheckpoint(label, outcome) =>
              /\ UNCHANGED <<digital_organs, meta, params>>
              /\ (/\ outcome = "ok"
                  /\ result.op = "checkpoint" /\ result.status = "returned"
                  /\ FileAt(files, result.value.path).data.doc.label = label) =>
                     LET old == FileAt(files, result.value.path).data
                         new == FileAt(files', result'.value.path).data
                     IN  /\ new.layout = old.layout
                         /\ StripTimestamp(new.doc) = StripTimestamp(old.doc)]_vars

\* two checkpoints with the same label were written one after the other
C8_Witness ==
    /\ now = 2
    /\ result.op = "checkpoint" /\ result.status = "returned"
    /\ \E f, g \in files :
          /\ f # g /\ f.complete /\ g.complete
          /\ f.data.doc.label = g.data.doc.label
          /\ StripTimestamp(f.data.doc) = StripTimestamp(g.data.doc)

\* the document checkpoint would serialize in the current state
Payload(label, ts) ==
    IF engine = "oae" THEN OaeSnapshot(label, ts) ELSE CorePayload(label, ts)

\* C9: two engine states that differ in an organ property, in meta or in an
\* engine parameter produce checkpoint payloads that differ in a field other
\* than the timestamp.
C9_PayloadCoversState ==
    [][(digital_organs' # digital_organs \/ meta' # meta \/ params' # params) =>
          \A label \in Labels :
              StripTimestamp(Payload(label, 0))' # StripTimestamp(Payload(label, 0))]_vars

\* C10: when storage fails, checkpoint raises the OSError instead of
\* returning a path, writes no complete file (it tries once), and leaves the
\* organs and meta as they were.
C10_StorageFailurePropagates ==
    [][\A label \in Labels, outcome \in StorageOutcomes :
          (IsCheckpoint(label, outcome) /\ outcome # "ok") =>
              /\ result' = Raised("checkpoint", "OSError")
              /\ \A f \in files' : f.complete => f \in files
              /\ UNCHANGED <<digital_organs, meta>>]_vars

\* a checkpoint has just failed in f.write, leaving an incomplete file
C10_Witness ==
    /\ result.op = "checkpoint" /\ result.status = "raised"
    /\ \E f \in files : ~f.complete /\ f.data.doc.label = "rest"

\* the sample points of [0, 1]
UnitGrid == {(n * Scale) \div GridSteps : n \in 0..GridSteps}

InUnit(x) == 0 <= x /\ x <= Scale

\* the oae.py impact at this intensity is non-negative at the engine's
\* guard, no greater than under any smaller guard of the grid and no smaller
\* than under any greater one
OaeImpactMonotone(intensity) ==
    /\ effective_impact(intensity) >= 0
    /\ \A g \in UnitGrid :
          /\ g <= params.entropy_guard =>
                ImpactAt(g, intensity) >= effective_impact(intensity)
          /\ g >= params.entropy_guard =>
                ImpactAt(g, intensity) <= effective_impact(intensity)

\* the same for core.py's effective impact
CoreImpactMonotone(inten, align) ==
    /\ effective(inten, align) >= 0
    /\ \A g \in UnitGrid :
          /\ g <= params.entropy_guard =>
                EffectiveAt(g, inten, align) >= effective(inten, align)
          /\ g >= params.entropy_guard =>
                EffectiveAt(g, inten, align) <= effective(inten, align)

C12_ParamsNeverChange == [][params' = params]_vars

\* core.py has adapted its learn rate: meta.effective_learn_rate differs from
\* params.learn_rate
C12_Witness ==
    /\ engine = "core"
    /\ "effective_learn_rate" \in DOMAIN meta
    /\ meta["effective_learn_rate"] # params.learn_rate
    /\ result.op = "resonance"

\* the organs keep the identity they were registered under
KeysMatchIds == \A k \in DOMAIN digital_organs : digital_organs[k].organ_id = k

\* C13: when every key of the organ mapping equals the organ_id of its value,
\* no resonance, decay_tick or checkpoint call adds or deletes an organ, every
\* key still equals its organ's organ_id afterwards, and each organ's schema
\* and volatile flag are unchanged.
C13_OrganIdentityStable ==
    [][KeysMatchIds =>
          /\ DOMAIN digital_organs' = DOMAIN digital_organs
          /\ \A k \in DOMAIN digital_organs :
                /\ digital_organs'[k].organ_id = k
                /\ digital_organs'[k].schema = digital_organs[k].schema
                /\ digital_organs'[k].volatile = digital_organs[k].volatile]_vars

\* oae.py after a resonance on a known organ, a checkpoint and then a
\* decay_tick that changed the volatile organ's properties
C13_Witness ==
    /\ engine = "oae"
    /\ KeysMatchIds
    /\ "last_active_organ" \in DOMAIN meta
    /\ files # {}
    /\ result.op = "decay_tick"
    /\ Len(result.value.recovered) > 0
    /\ digital_organs["arm"].volatile

\* meta.get("affect_level", 0.0)
AffectLevel == Get(meta, "affect_level", 0)

\* C14: every decay_tick of core.py replaces meta.affect_level (0.0 when
\* absent) with affect * (1 - 0.5 * memory_decay) and reports the value before
\* and after; resonance and checkpoint leave affect_level as it is; so the
\* affect level is non-negative and never increases.
C14_AffectDecay ==
    [][engine = "core" =>
          /\ result'.op = "decay_tick" =>
                /\ "affect_level" \in DOMAIN meta'
                /\ meta'["affect_level"] =
                       Mul(AffectLevel, Scale - Mul(Tenths(5), params.memory_decay))
                /\ result'.value.affect_prev = AffectLevel
                /\ result'.value.affect_new = meta'["affect_level"]
          /\ result'.op # "decay_tick" =>
                /\ ("affect_level" \in DOMAIN meta') = ("affect_level" \in DOMAIN meta)
                /\ AffectLevel' = AffectLevel
          /\ AffectLevel >= 0 => (0 <= AffectLevel' /\ AffectLevel' <= AffectLevel)]_vars

\* a decay_tick after a resonance has lowered a positive affect level
C14_Witness ==
    /\ engine = "core"
    /\ result.op = "decay_tick"
    /\ "effective_learn_rate" \in DOMAIN meta
    /\ result.value.affect_prev > 0
    /\ result.value.affect_new < result.value.affect_prev
    /\ meta["affect_level"] = result.value.affect_new

\* oid is named in the `atrophied` list of the summary
ReportedAtrophied(summary, oid) ==
    \E i \in 1..Len(summary.atrophied) : summary.atrophied[i].oid = oid

ReportedRecovered(summary, oid) ==
    \E i \in 1..Len(summary.recovered) : summary.recovered[i].oid = oid

\* C15: within one decay_tick of oae.py each organ's fatigue is recovered
\* first (fatigue > 0 loses fatigue * recovery_rate, not below 0.0) and the
\* atrophy test reads the recovered value: the organ is reported as atrophied,
\* and its strength reduced by strength * memory_decay * 0.01, exactly when
\* its strength is > 10.0 and its fatigue after that recovery is < 1.0.
C15_RecoveryBeforeAtrophy ==
    [][OaeDecayTick =>
        \A k \in DOMAIN digital_organs :
            LET before == digital_organs[k].properties
                after == digital_organs'[k].properties
                f0 == Get(before, "fatigue", 0)
                f1 == IF f0 > 0
                      THEN Max(0, f0 - Mul(f0, params.recovery_rate))
                      ELSE f0
                s0 == Get(before, "strength", 0)
                reported == ReportedAtrophied(result'.value, k)
            IN  /\ Get(after, "fatigue", 0) = f1
                /\ reported <=> (s0 > 10 * Scale /\ f1 < Scale)
                /\ reported =>
                      after["strength"] =
                          s0 - (s0 * params.memory_decay) \div (100 * Scale)
                /\ ~reported => Get(after, "strength", 0) = s0]_vars

\* one decay_tick has both recovered an organ by at least 1.0 of fatigue (so
\* its fatigue was >= 1.0 when the tick began) and atrophied it
C15_Witness ==
    /\ engine = "oae"
    /\ result.op = "decay_tick"
    /\ \E i \in 1..Len(result.value.recovered) :
          /\ result.value.recovered[i].fatigue.digits >= 100
          /\ ReportedAtrophied(result.value, result.value.recovered[i].oid)

\* 10.0 * (1 - 0.01 * memory_decay)
AtrophyFloor == 10 * Scale - (10 * Scale * params.memory_decay) \div (100 * Scale)

\* C16: with organs constructed at strength >= 10.0, after any sequence of
\* resonance calls with intensity in [0, 1] and decay_tick calls every
\* strength is strictly greater than 10.0 * (1 - 0.01 * memory_decay).
C16_StrengthAboveFloor ==
    \A k \in DOMAIN digital_organs :
        Has(k, "strength") => Prop(k, "strength") > AtrophyFloor

\* C16 as it holds: strength is at least 10.0 * (1 - 0.01 * memory_decay), and
\* strictly greater when memory_decay > 0.
C16_StrengthAtLeastFloor ==
    \A k \in DOMAIN digital_organs :
        Has(k, "strength") =>
            /\ Prop(k, "strength") >= AtrophyFloor
            /\ params.memory_decay > 0 => Prop(k, "strength") > AtrophyFloor

\* atrophy has taken an organ below the 10.0 baseline
C16_Witness ==
    /\ engine = "oae"
    /\ result.op = "decay_tick"
    /\ params.memory_decay > 0
    /\ \E k \in DOMAIN digital_organs :
          /\ ReportedAtrophied(result.value, k)
          /\ Prop(k, "strength") < 10 * Scale

\* property p of organ k is present before and after with one value, or absent
\* before and after
SameProperty(k, p) ==
    LET before == digital_organs[k].properties
        after == digital_organs'[k].properties
    IN  /\ (p \in DOMAIN after) = (p \in DOMAIN before)
        /\ p \in DOMAIN before => after[p] = before[p]

PropertyNames ==
    UNION {DOMAIN digital_organs[k].properties : k \in DOMAIN digital_organs}
        \cup {"strength", "fatigue", "integrity"}

\* C17: a resonance call of oae.py targeting organ X changes at most the
\* strength and fatigue of X -- every other organ's properties and every other
\* property of X are unchanged, and no other property appears -- and
\* decay_tick changes no property other than strength and fatigue.
C17_PropertyFrame ==
    [][/\ (engine = "oae" /\ result'.op = "resonance") =>
            \A ctx \in OaeContexts :
                OaeResonance(ctx) =>
                    \A k \in DOMAIN digital_organs :
                        \A p \in PropertyNames \cup PropertyNames' :
                            (k # ctx.organ_id \/ p \notin {"strength", "fatigue"})
                                => SameProperty(k, p)
       /\ OaeDecayTick =>
            \A k \in DOMAIN digital_organs :
                \A p \in (PropertyNames \cup PropertyNames') \ {"strength", "fatigue"} :
                    SameProperty(k, p)]_vars

\* a resonance has just raised the fatigue of its motor target, whose
\* integrity stands as constructed
C17_Witness ==
    /\ engine = "oae"
    /\ result.op = "resonance"
    /\ result.status = "returned"
    /\ "organ" \in DOMAIN result.value
    /\ result.value.organ = "arm"
    /\ Prop("arm", "fatigue") > 95 * Scale
    /\ Prop("arm", "integrity") = 100 * Scale
    /\ Prop("legs", "strength") = 10 * Scale + 5
    /\ Prop("legs", "integrity") = 80 * Scale

\* key p of meta is present before and after with one value, or absent before
\* and after
SameMeta(p) ==
    /\ (p \in DOMAIN meta') = (p \in DOMAIN meta)
    /\ p \in DOMAIN meta => meta'[p] = meta[p]

\* C18: in oae.py meta.last_active_organ is absent or the target of the most
\* recent resonance call that named an organ of the mapping: every resonance
\* call naming such an organ leaves it equal to that organ's id, every other
\* resonance call, decay_tick and checkpoint leave it as it was, and it is
\* always a key of the organ mapping.
C18_LastActiveOrgan ==
    [][engine = "oae" =>
          /\ result'.op = "resonance" =>
                \A ctx \in OaeContexts :
                    OaeResonance(ctx) =>
                        IF ctx.organ_id \in DOMAIN digital_organs
                        THEN /\ "last_active_organ" \in DOMAIN meta'
                             /\ meta'["last_active_organ"] = ctx.organ_id
                        ELSE SameMeta("last_active_organ")
          /\ result'.op # "resonance" => SameMeta("last_active_organ")
          /\ "last_active_organ" \in DOMAIN meta' =>
                meta'["last_active_organ"] \in DOMAIN digital_organs']_vars

\* C19: in core.py meta.effective_learn_rate lies in [0, 1]; each resonance
\* call sets it to clamp(prev + effective * 0.05, 0, 1), whether or not the
\* stimulus names a known organ; meta.hot_organ is written only when the named
\* organ is in the mapping.
C19_LearnRateClamped ==
    [][engine = "core" =>
          /\ "effective_learn_rate" \in DOMAIN meta' =>
                (0 <= meta'["effective_learn_rate"]
                    /\ meta'["effective_learn_rate"] <= Scale)
          /\ result'.op = "resonance" =>
                \A ctx \in CoreContexts :
                    CoreResonance(ctx) =>
                        /\ "effective_learn_rate" \in DOMAIN meta'
                        /\ (CanFloat(ctx.intensity) /\ CanFloat(ctx.alignment)) =>
                              meta'["effective_learn_rate"] =
                                  Max(0, Min(Scale,
                                      Get(meta, "effective_learn_rate", params.learn_rate)
                                      + Mul(effective(Float(ctx.intensity),
                                                      Float(ctx.alignment)),
                                            Hundredths(5))))
                        /\ IF ctx.organ_id \in DOMAIN digital_organs
                           THEN "hot_organ" \in DOMAIN meta'
                                    => meta'["hot_organ"] \in DOMAIN digital_organs
                           ELSE SameMeta("hot_organ")
          /\ result'.op # "resonance" => SameMeta("hot_organ")]_vars

\* recovery_rate > 0 and memory_decay > 0
Decaying == params.recovery_rate > 0 /\ params.memory_decay > 0

\* organ k has come to rest: fatigue < 1.0 and strength <= 10.0
Rested(k) == Get(digital_organs[k].properties, "fatigue", 0) < Scale

AtBaseline(k) == Get(digital_organs[k].properties, "strength", 0) <= 10 * Scale

\* C20: with recovery_rate > 0 and memory_decay > 0, when decay_tick is
\* invoked repeatedly and no further resonance occurs, every organ's fatigue
\* eventually is < 1.0, from there its strength eventually is <= 10.0, and
\* from then on decay_tick reports no atrophy for it and leaves its strength
\* unchanged.
C20_EventuallyAtRest ==
    /\ \A k \in OaeKeys :
          /\ Decaying => <>Rested(k)
          /\ (Decaying /\ Rested(k)) ~> (Rested(k) /\ AtBaseline(k))
    /\ [][\A k \in OaeKeys :
              (Decaying /\ RestTick /\ Rested(k) /\ AtBaseline(k)) =>
                  /\ ~ReportedAtrophied(result'.value, k)
                  /\ SameProperty(k, "strength")]_vars

\* an organ that was fatigued and above the baseline has been ticked down to
\* rest below it, and the latest tick had nothing left to recover or atrophy
C20_Witness ==
    /\ engine = "oae"
    /\ Decaying
    /\ result.op = "decay_tick"
    /\ result.value.atrophied = << >>
    /\ \A k \in OaeKeys : Rested(k) /\ AtBaseline(k)
    /\ Has("mind", "strength") /\ Prop("mind", "strength") < 10 * Scale
    /\ Has("arm", "fatigue") /\ Prop("arm", "fatigue") > 0

====
